---- MODULE Spec2Model ----
(***************************************************************************)
(* Model of nas_manager/src/main.rs: the entry point that initialises the  *)
(* Qt application context, builds one top-level QWidget, sizes and titles  *)
(* it, shows it and runs the event loop.                                   *)
(*                                                                         *)
(* main is one call, QApplication::init(closure).  init (qt_widgets crate) *)
(* constructs the QApplication, calls the closure with it, drops the       *)
(* QApplication and calls std::process::exit with the closure's value; it  *)
(* never returns.  The closure body (lines 10-15) is modelled statement by *)
(* statement.  The event loop itself is toolkit code: it is modelled as    *)
(* the environment dispatching events until a quit event is dispatched.    *)
(* The window attributes record what the program asked of the toolkit.     *)
(***************************************************************************)
EXTENDS Integers, Sequences, FiniteSets

VARIABLES
    pc,          \* position of main
    display,     \* environment: is a display environment available
    nApp,        \* number of live application contexts (QApplication)
    nWidgets,    \* number of live top-level windows (QWidget)
    size,        \* window size as <<width, height>>, NoSize before resize_2a
    title,       \* window title, NoTitle before set_window_title
    visible,     \* has show() been called on the window
    dispatched,  \* ordinary events dispatched by the event loop so far
    quit,        \* has a quit event been dispatched to the running loop
    quitStatus,  \* return code carried by the quit event
    closed,      \* did the user close the window
    execStatus,  \* <<s>> once QApplication::exec has returned s, else <<>>
    exitCode     \* <<c>> once the process has ended with status c, else <<>>

vars == <<pc, display, nApp, nWidgets, size, title, visible, dispatched,
          quit, quitStatus, closed, execStatus, exitCode>>

\* ---- bounds ----
MaxEvents == 4
MaxStatus == 3

\* ---- program constants ----
Width == 320
Height == 240
WindowTitle == "Hello Qt from Rust!"

NoSize == <<>>
NoTitle == ""

win == <<nWidgets, size, title, visible>>
loop == <<dispatched, quit, quitStatus, closed>>

Init ==
    /\ pc = "Start"
    /\ display \in BOOLEAN
    /\ nApp = 0
    /\ nWidgets = 0
    /\ size = NoSize
    /\ title = NoTitle
    /\ visible = FALSE
    /\ dispatched = 0
    /\ quit = FALSE
    /\ quitStatus = 0
    /\ closed = FALSE
    /\ execStatus = <<>>
    /\ exitCode = <<>>

\* Initialisation carried on regardless of the display environment.
QAppInit_Fallback ==
    /\ pc = "Start"
    /\ nApp' = nApp + 1
    /\ pc' = "AppCtxReady"
    /\ UNCHANGED <<display, win, loop, execStatus, exitCode>>

\* line 7: QApplication::init constructs the application context and calls
\* the closure.
QAppInit ==
    /\ pc = "Start"
    /\ display
    /\ nApp' = nApp + 1
    /\ pc' = "AppCtxReady"
    /\ UNCHANGED <<display, win, loop, execStatus, exitCode>>

\* Toolkit initialisation with no display environment: the process ends
\* with a nonzero status, nothing is constructed.
InitFail ==
    /\ pc = "Start"
    /\ ~display
    /\ \E s \in 1..MaxStatus : exitCode' = <<s>>
    /\ pc' = "Exit"
    /\ UNCHANGED <<display, nApp, win, loop, execStatus>>

\* The widget constructed outside the initialisation closure.
NewWidget_NoCtx ==
    /\ pc \in {"Start", "AppCtxReady"}
    /\ nWidgets = 0
    /\ nWidgets' = nWidgets + 1
    /\ pc' = IF pc = "Start" THEN "Start" ELSE "WidgetCreated"
    /\ UNCHANGED <<display, nApp, size, title, visible, loop, execStatus, exitCode>>

\* The constructor called twice.
NewWidget_Twice ==
    /\ pc = "AppCtxReady"
    /\ nWidgets' = nWidgets + 2
    /\ pc' = "WidgetCreated"
    /\ UNCHANGED <<display, nApp, size, title, visible, loop, execStatus, exitCode>>

\* line 10: let widget = QWidget::new_0a();
NewWidget ==
    /\ pc = "AppCtxReady"
    /\ nWidgets' = nWidgets + 1
    /\ pc' = "WidgetCreated"
    /\ UNCHANGED <<display, nApp, size, title, visible, loop, execStatus, exitCode>>

\* line 11: widget.resize_2a(320, 240);
Resize ==
    /\ pc = "WidgetCreated"
    /\ size' = <<Width, Height>>
    /\ pc' = "Resized"
    /\ UNCHANGED <<display, nApp, nWidgets, title, visible, loop, execStatus, exitCode>>

\* set_window_title with the final character of the literal lost.
SetWindowTitle_Truncated ==
    /\ pc = "Resized"
    /\ title' = "Hello Qt from Rust"
    /\ pc' = "Titled"
    /\ UNCHANGED <<display, nApp, nWidgets, size, visible, loop, execStatus, exitCode>>

\* line 12: widget.set_window_title(&QString::from_std_str("Hello Qt from Rust!"));
SetWindowTitle ==
    /\ pc = "Resized"
    /\ title' = WindowTitle
    /\ pc' = "Titled"
    /\ UNCHANGED <<display, nApp, nWidgets, size, visible, loop, execStatus, exitCode>>

\* show() left out.
Show_Skipped ==
    /\ pc = "Titled"
    /\ pc' = "Shown"
    /\ UNCHANGED <<display, nApp, win, loop, execStatus, exitCode>>

\* show() called right after construction, size and title left unset.
Show_Early ==
    /\ pc \in {"WidgetCreated", "Titled"}
    /\ visible' = TRUE
    /\ pc' = "Shown"
    /\ UNCHANGED <<display, nApp, nWidgets, size, title, loop, execStatus, exitCode>>

\* line 14: widget.show();
Show ==
    /\ pc = "Titled"
    /\ visible' = TRUE
    /\ pc' = "Shown"
    /\ UNCHANGED <<display, nApp, nWidgets, size, title, loop, execStatus, exitCode>>

\* The widget handle released before the loop is entered.
Exec_DropsWidget ==
    /\ pc = "Shown"
    /\ nWidgets' = nWidgets - 1
    /\ visible' = FALSE
    /\ pc' = "EventLoopRunning"
    /\ UNCHANGED <<display, nApp, size, title, loop, execStatus, exitCode>>

\* line 15: QApplication::exec() is entered and blocks.
Exec ==
    /\ pc = "Shown"
    /\ pc' = "EventLoopRunning"
    /\ UNCHANGED <<display, nApp, win, loop, execStatus, exitCode>>

\* The running loop dispatches an ordinary (non-quit) event.
DispatchEvent ==
    /\ pc = "EventLoopRunning"
    /\ ~quit
    /\ dispatched < MaxEvents
    /\ dispatched' = dispatched + 1
    /\ UNCHANGED <<pc, display, nApp, win, quit, quitStatus, closed, execStatus, exitCode>>

\* The user closes the window: a quit event with return code 0.
CloseWindow ==
    /\ pc = "EventLoopRunning"
    /\ ~quit
    /\ quit' = TRUE
    /\ quitStatus' = 0
    /\ closed' = TRUE
    /\ UNCHANGED <<pc, display, nApp, win, dispatched, execStatus, exitCode>>

\* The OS terminates the application: a quit event with a nonzero code.
OsTerminate ==
    /\ pc = "EventLoopRunning"
    /\ ~quit
    /\ \E s \in 1..MaxStatus : quitStatus' = s
    /\ quit' = TRUE
    /\ UNCHANGED <<pc, display, nApp, win, dispatched, closed, execStatus, exitCode>>

\* The loop given up without a quit event.
ExecReturn_NoQuit ==
    /\ pc = "EventLoopRunning"
    /\ execStatus' = <<quitStatus>>
    /\ pc' = "ExecReturned"
    /\ UNCHANGED <<display, nApp, win, loop, exitCode>>

\* The loop entered again after it returned.
ExecReturn_Retry ==
    /\ pc = "EventLoopRunning"
    /\ quit
    /\ IF execStatus = <<>>
       THEN /\ execStatus' = <<quitStatus>>
            /\ pc' = "Shown"
            /\ quit' = FALSE
       ELSE /\ execStatus' = <<quitStatus>>
            /\ pc' = "ExecReturned"
            /\ quit' = quit
    /\ UNCHANGED <<display, nApp, win, dispatched, quitStatus, closed, exitCode>>

\* line 15: QApplication::exec() returns the quit event's code; it is the
\* value of the closure.
ExecReturn ==
    /\ pc = "EventLoopRunning"
    /\ quit
    /\ execStatus' = <<quitStatus>>
    /\ pc' = "ExecReturned"
    /\ UNCHANGED <<display, nApp, win, loop, exitCode>>

\* line 16: the closure's block ends; the owning handle `widget` goes out
\* of scope and the parentless window is deleted.
DropWidget ==
    /\ pc = "ExecReturned"
    /\ nWidgets' = nWidgets - 1
    /\ visible' = FALSE
    /\ pc' = "WidgetDropped"
    /\ UNCHANGED <<display, nApp, size, title, loop, execStatus, exitCode>>

\* line 17: the closure has returned into init, which releases the
\* application context.
DropApp ==
    /\ pc = "WidgetDropped"
    /\ nApp' = nApp - 1
    /\ pc' = "AppDropped"
    /\ UNCHANGED <<display, win, loop, execStatus, exitCode>>

\* main falling off its end with status 0 whatever the closure returned.
ProcessExit_Zero ==
    /\ pc = "AppDropped"
    /\ exitCode' = <<0>>
    /\ pc' = "Exit"
    /\ UNCHANGED <<display, nApp, win, loop, execStatus>>

\* line 7/17: init ends the process with the closure's value; the binding
\* `app` is never reached.
ProcessExit ==
    /\ pc = "AppDropped"
    /\ exitCode' = execStatus
    /\ pc' = "Exit"
    /\ UNCHANGED <<display, nApp, win, loop, execStatus>>

Next ==
    \/ QAppInit
    \/ InitFail
    \/ NewWidget
    \/ Resize
    \/ SetWindowTitle
    \/ Show
    \/ Exec
    \/ DispatchEvent
    \/ CloseWindow
    \/ OsTerminate
    \/ ExecReturn
    \/ DropWidget
    \/ DropApp
    \/ ProcessExit

Spec == Init /\ [][Next]_vars

\* main runs on one thread that is never suspended for ever: each program
\* step that is enabled is eventually taken.  Nothing is assumed of the
\* environment's events.
FairSpec ==
    /\ Spec
    /\ WF_vars(QAppInit)
    /\ WF_vars(InitFail)
    /\ WF_vars(NewWidget)
    /\ WF_vars(Resize)
    /\ WF_vars(SetWindowTitle)
    /\ WF_vars(Show)
    /\ WF_vars(Exec)
    /\ WF_vars(ExecReturn)
    /\ WF_vars(DropWidget)
    /\ WF_vars(DropApp)
    /\ WF_vars(ProcessExit)

TypeOK ==
    /\ pc \in {"Start", "AppCtxReady", "WidgetCreated", "Resized", "Titled",
               "Shown", "EventLoopRunning", "ExecReturned", "WidgetDropped",
               "AppDropped", "Exit"}
    /\ display \in BOOLEAN
    /\ nApp \in 0..1
    /\ nWidgets \in 0..1
    /\ size \in {NoSize, <<Width, Height>>}
    /\ title \in {NoTitle, WindowTitle}
    /\ visible \in BOOLEAN
    /\ dispatched \in 0..MaxEvents
    /\ quit \in BOOLEAN
    /\ quitStatus \in 0..MaxStatus
    /\ closed \in BOOLEAN
    /\ Len(execStatus) <= 1
    /\ Len(exitCode) <= 1

\* ---- the control states of the design's state machine ----
phase ==
    IF pc = "EventLoopRunning" THEN "EventLoopRunning"
    ELSE IF pc \in {"ExecReturned", "WidgetDropped", "AppDropped", "Exit"} THEN "Exit"
    ELSE IF nApp = 0 THEN "Start"
    ELSE IF nWidgets = 0 THEN "AppCtxReady"
    ELSE IF ~visible THEN "WindowCreated"
    ELSE "WindowVisible"

Successor(p) ==
    CASE p = "Start" -> "AppCtxReady"
      [] p = "AppCtxReady" -> "WindowCreated"
      [] p = "WindowCreated" -> "WindowVisible"
      [] p = "WindowVisible" -> "EventLoopRunning"
      [] p = "EventLoopRunning" -> "Exit"
      [] OTHER -> "None"

\* ---- claims ----

\* C1: the application context is initialised before the window is
\* constructed: in no reachable state does a window exist without an
\* application context.
C1_CtxBeforeWindow == nWidgets > 0 => nApp > 0

C1_Witness == pc = "WidgetCreated" /\ nWidgets = 1 /\ nApp = 1

\* C2: every step that enters the event loop starts in a state where the
\* window's size and title have been set and the window has been shown.
C2_ReadyBeforeExec ==
    [][(pc # "EventLoopRunning" /\ pc' = "EventLoopRunning")
         => (size # NoSize /\ title # NoTitle /\ visible)]_vars

C2_Witness == pc = "EventLoopRunning" /\ dispatched = 0 /\ ~quit

\* C3: the status returned by the event loop is the process exit code,
\* unchanged: 0 stays 0 and a nonzero status stays the same nonzero status.
C3_StatusPropagated ==
    \A s \in 0..MaxStatus : (pc = "Exit" /\ execStatus = <<s>>) => exitCode = <<s>>

C3_Witness == pc = "Exit" /\ execStatus = <<2>> /\ exitCode = <<2>>

\* C4: with no display environment the process ends with a nonzero status
\* and does not hang; no application context and no window is ever created,
\* the event loop is never entered, and initialisation is not retried.
C4_HeadlessFails ==
    /\ [](~display => /\ nApp = 0
                      /\ nWidgets = 0
                      /\ pc \in {"Start", "Exit"}
                      /\ execStatus = <<>>
                      /\ (pc = "Exit" => (exitCode # <<>> /\ exitCode # <<0>>)))
    /\ (~display ~> pc = "Exit")

C4_Witness == ~display /\ pc = "Exit" /\ exitCode = <<1>> /\ nWidgets = 0

\* C5 as stated: every change of control state goes from a state of the
\* path Start, AppCtxReady, WindowCreated, WindowVisible, EventLoopRunning,
\* Exit to its immediate successor.
C5_LinearPath == [][phase' = phase \/ phase' = Successor(phase)]_vars

\* C5 as amended: every change of control state goes to the immediate
\* successor on the path, except that a failed toolkit initialisation goes
\* from Start straight to Exit; so no state is entered twice.
C5_LinearPathOrInitFailure ==
    [][\/ phase' = phase
       \/ phase' = Successor(phase)
       \/ (phase = "Start" /\ ~display /\ phase' = "Exit")]_vars

C5_Witness == pc = "Exit" /\ display /\ execStatus # <<>> /\ dispatched > 0

C8_CloseExits ==
    /\ (closed ~> (pc = "Exit" /\ exitCode = <<0>>))
    /\ [][(pc = "EventLoopRunning" /\ pc' # "EventLoopRunning") => quit]_vars

C8_Witness == closed /\ pc = "Exit" /\ exitCode = <<0>>

\* C9: the window is alive all the time the event loop runs, and it is
\* destroyed only by a step taken after QApplication::exec has returned.
C9_WindowOutlivesLoop ==
    /\ [](pc = "EventLoopRunning" => nWidgets = 1)
    /\ [][nWidgets' < nWidgets => (pc = "ExecReturned" /\ execStatus # <<>>)]_vars

C9_Witness == pc = "WidgetDropped" /\ nWidgets = 0 /\ execStatus # <<>>

\* C10: whenever the window is visible its size is 320 x 240 and its title
\* is the final title: size and title are set before show().
C10_VisibleImpliesConfigured ==
    visible => (size = <<Width, Height>> /\ title = WindowTitle)

C10_Witness == visible /\ pc = "Shown" /\ size = <<320, 240>>

====
